---- MODULE Spec2Model ----
(***************************************************************************)
(* A model of src/index.js: the globe scene, its city markers, the dot     *)
(* builder and the per-frame loop.                                         *)
(*                                                                         *)
(* Numbers are fixed point.  Unit vectors are integer triples scaled by    *)
(* UNIT (0.01 resolution); a dot product of two unit vectors is scaled by  *)
(* DOT_ONE = UNIT * UNIT; the attenuation factor s is scaled by            *)
(* S_ONE = UNIT * DOT_ONE; sizes are scaled by UNIT; u_time values are     *)
(* scaled by 1000.  An aspect ratio is the pair <<width, height>> and the  *)
(* x component of a scale is the pair <<numerator, denominator>>.          *)
(***************************************************************************)
EXTENDS Integers, Sequences, FiniteSets, TLC

VARIABLES
  pc,            \* position of the module's top-level script
  nextMarker,    \* index of the next entry of markers that forEach will visit
  crashed,       \* an uncaught TypeError ended the top-level script
  viewport,      \* window.innerWidth and the container's size (environment)
  sizes,         \* sizes
  camera,        \* camera.position and camera.aspect, or undefined
  baseMesh,      \* baseMesh is defined
  markersGroup,  \* markersGroup: defined flag and children (the marker planes)
  tex,           \* per marker: state of its textureLoader.load request
  log,           \* console.error calls
  maskState,     \* state of the world-mask Image request
  activeLatLon,  \* activeLatLon of buildDotsFromMap
  dots,          \* dot meshes added to the scene
  materials,     \* materials
  utime,         \* heap of u_time uniform objects: object id -> value
  colors,        \* heap of colour uniform objects: object id -> value
  dotsFrame,     \* number of animate() runs completed when the dots were built
  frames,        \* number of animate() runs so far
  rafPending,    \* a requestAnimationFrame callback is scheduled
  lastRender,    \* what the last renderer.render(scene, camera) drew
  cursor,        \* document.body.style.cursor
  events,        \* number of callbacks other than frames run so far
  scan,          \* readImageData's loop variables (stepwise specification)
  place,         \* placeDots' loop variables (stepwise specification)
  image          \* the decoded mask image (stepwise specification)

vars == <<pc, nextMarker, crashed, viewport, sizes, camera, baseMesh, markersGroup,
          tex, log, maskState, activeLatLon, dots, materials, utime, colors,
          dotsFrame, frames, rafPending, lastRender, cursor, events, scan, place, image>>

stepVars == <<scan, place, image>>

-----------------------------------------------------------------------------
(* Bounds of the exploration *)

MaxFrames == 2    \* requestAnimationFrame callbacks explored
MaxEvents == 2    \* other callbacks explored (texture, mask image, resize, mouse)

-----------------------------------------------------------------------------
(* Fixed point *)

UNIT == 10 * 10
DOT_ONE == UNIT * UNIT
S_ONE == UNIT * DOT_ONE

Undefined == 0 - 1

Abs(a) == IF a < 0 THEN -a ELSE a

Round(a, b) ==
  IF a >= 0 THEN (2 * a + b) \div (2 * b) ELSE -((2 * (-a) + b) \div (2 * b))

ISqrt(n) == CHOOSE r \in 0..300 : r * r <= n /\ (r + 1) * (r + 1) > n

Dot3(a, b) == a[1] * b[1] + a[2] * b[2] + a[3] * b[3]

\* Vector3.normalize(): divideScalar(length() || 1), scaled by UNIT
Normalize(v) ==
  LET len == ISqrt(Dot3(v, v))
      l   == IF len = 0 THEN 1 ELSE len
  IN  <<Round(UNIT * v[1], l), Round(UNIT * v[2], l), Round(UNIT * v[3], l)>>

\* MathUtils.clamp
Clamp(v, lo, hi) == IF v < lo THEN lo ELSE IF v > hi THEN hi ELSE v

\* mutant: the end points swapped
LerpSwapped(x, y, t) == (DOT_ONE - t) * y + t * x

\* MathUtils.lerp(x, y, t) = (1 - t) * x + t * y, with t scaled by DOT_ONE
Lerp(x, y, t) == (DOT_ONE - t) * x + t * y

-----------------------------------------------------------------------------
(* Markers *)

\* n = latLonToVector3(lat, lon, SPHERE_RADIUS, altitude).normalize() of each
\* entry of markers, rounded to 0.01
MarkerOutward == <<
  <<62, 78, 0>>,      \* London
  <<21, 22, -95>>,    \* Bengaluru
  <<52, 43, -74>>,    \* Dubai
  <<-62, 58, -53>>,   \* Tokyo
  <<80, -2, -60>>,    \* Nairobi
  <<99, 11, -6>>,     \* Lagos
  <<63, -40, 67>>,    \* Sao Paulo
  <<21, 65, 73>>,     \* New York
  <<-12, 50, 86>>,    \* Austin
  <<-42, 61, 67>>,    \* San Francisco
  <<-73, -56, -40>>,  \* Sydney
  <<-28, 19, -94>>,   \* Ho Chi Minh City
  <<45, 87, -21>>,    \* Helsinki
  <<65, 74, -13>>,    \* Munich
  <<-29, -11, -95>>   \* Jakarta
>>

NumMarkers == Len(MarkerOutward)

\* defaultMarkerOpts.size, scaled by UNIT
size == 135

\* minScale, scaled by UNIT
minScale == 55

\* the decoded icon: tex.image with its width and height, or no image
IconImages == {
  [present |-> TRUE,  width |-> 1, height |-> 2],
  [present |-> TRUE,  width |-> 2, height |-> 0],
  [present |-> FALSE, width |-> 0, height |-> 0]
}

\* no decoded icon yet
NoIcon == [present |-> FALSE, width |-> 0, height |-> 0]

\* plane.userData / plane.scale / material state right after markersGroup.add
NewPlane(n) ==
  [outward  |-> n,
   baseSize |-> size,
   aspect   |-> <<1, 1>>,
   scale    |-> [x |-> <<size * S_ONE, 1>>, y |-> size * S_ONE, z |-> 1],
   visible  |-> TRUE,
   map      |-> FALSE,
   color    |-> "0xffffff"]

\* the aspect expression of the onLoad callback
AspectOf(img) ==
  IF img.present /\ img.width # 0 /\ img.height # 0
  THEN <<img.width, img.height>>
  ELSE <<1, 1>>

\* mutant: the callback records the aspect but leaves the provisional scale
OnTextureLoadNoRescale(m, img) ==
  [m EXCEPT !.map = TRUE, !.color = "0xffffff", !.aspect = AspectOf(img)]

\* the onLoad callback of textureLoader.load, on its own plane
OnTextureLoad(m, img) ==
  LET ar == AspectOf(img)
  IN  [m EXCEPT !.map = TRUE,
                !.color = "0xffffff",
                !.aspect = ar,
                !.scale = [x |-> <<size * ar[1] * S_ONE, ar[2]>>,
                           y |-> size * S_ONE,
                           z |-> 1]]

\* mutant: the failure callback hides the plane
OnTextureErrorHides(m) == [m EXCEPT !.visible = FALSE]

\* the onError callback of textureLoader.load, on its own plane: only logs
OnTextureError(m) == m

\* mutant: a marker on the limb stays visible
MarkerVisibleOnLimb(dot) == dot >= 0

\* m.visible = dot > 0
MarkerVisible(dot) == dot > 0

\* the body of markersGroup.children.forEach in attenuateMarkerScaleAndVisibility
AttenuateMarker(m, view) ==
  LET dot  == Dot3(m.outward, view)
      vis  == MarkerVisible(dot)
      t    == Clamp(dot, 0, DOT_ONE)
      s    == Lerp(minScale, UNIT, t)
      base == IF m.baseSize = 0 THEN UNIT ELSE m.baseSize
      ar   == IF m.aspect[1] = 0 THEN <<1, 1>> ELSE m.aspect
  IN  IF vis
      THEN [m EXCEPT !.visible = TRUE,
                     !.scale = [x |-> <<base * ar[1] * s, ar[2]>>,
                                y |-> base * s,
                                z |-> 1]]
      ELSE [m EXCEPT !.visible = FALSE]

\* attenuateMarkerScaleAndVisibility, with center = baseMesh.position = (0,0,0)
attenuateMarkerScaleAndVisibility(group, base, camPos) ==
  IF ~group.defined \/ ~base
  THEN group
  ELSE LET view == Normalize(camPos)
       IN  [group EXCEPT !.children =
              [i \in 1..Len(group.children) |-> AttenuateMarker(group.children[i], view)]]

-----------------------------------------------------------------------------
(* Environment: the window and the container *)

Viewports == {
  [innerWidth |-> 1024, width |-> 800, height |-> 600],
  [innerWidth |-> 700,  width |-> 350, height |-> 500]
}

\* window.innerWidth > 700 ? 100 : 140
CameraZ(vp) == IF vp.innerWidth > 700 THEN 100 ELSE 140

\* camera positions OrbitControls may produce (auto-rotation, damping, dragging);
\* minPolarAngle / maxPolarAngle keep |y| / |position| <= sin(0.5)
PolarOk(p) == Abs(p[2]) * 10000 <= 4794 * ISqrt(Dot3(p, p))

OrbitPositions ==
  {p \in {<<0, 0, 100>>, <<80, -2, -60>>, <<0, 28, 96>>, <<0, 96, 28>>} : PolarOk(p)}

\* controls.update(): the library moves the camera
ControlsUpdate(pos) == OrbitPositions

-----------------------------------------------------------------------------
(* Dot materials *)

\* twinkleTime, scaled by 1000
twinkleTime == 27

\* for (const m of materials) m.uniforms.u_time.value += twinkleTime
RECURSIVE Twinkle(_, _, _)
Twinkle(mats, heap, k) ==
  IF k > Len(mats)
  THEN heap
  ELSE Twinkle(mats, [heap EXCEPT ![mats[k].u_time] = @ + twinkleTime], k + 1)

-----------------------------------------------------------------------------
(* The dots builder: buildDotsFromMap *)

\* A decoded mask image: the RGBA array has `length` entries; the pixels in `dark`
\* are (0, 0, 0), those in `edge` are (79, 79, 80), all others (255, 255, 255).
\* imageData[i], Undefined beyond the end of the array
DataAt(img, i) ==
  IF i >= img.length THEN Undefined
  ELSE IF i % 4 = 3 THEN 255
  ELSE IF (i \div 4) \in img.dark THEN 0
  ELSE IF (i \div 4) \in img.edge THEN (IF i % 4 = 2 THEN 80 ELSE 79)
  ELSE 255

\* v < 80, false for undefined
Below80(v) == v # Undefined /\ v < 80

\* the loop header of readImageData: i = 0, lon = -180, lat = 90
ReadStart == [i |-> 0, lon |-> -180, lat |-> 90, phase |-> "read"]

\* the loop test of readImageData
ReadMore(st, img) == st.phase = "read" /\ st.i < img.length

\* mutant: the wrap compensates the loop increment
WrapBeforeStart(lon, lat) == IF lon = 180 THEN <<-181, lat - 1>> ELSE <<lon, lat>>

\* the wrap of readImageData: if (lon === 180) { lon = -180; lat--; }
Wrap(lon, lat) == IF lon = 180 THEN <<-180, lat - 1>> ELSE <<lon, lat>>

\* one iteration of readImageData's loop on activeLatLon = active: the loop
\* variables and activeLatLon after it
ReadStep(st, active, img) ==
  LET a1 == IF st.lat \in DOMAIN active THEN active ELSE (st.lat :> <<>>) @@ active
      r  == DataAt(img, st.i)
      g  == DataAt(img, st.i + 1)
      b  == DataAt(img, st.i + 2)
      a2 == IF Below80(r) /\ Below80(g) /\ Below80(b)
            THEN [a1 EXCEPT ![st.lat] = Append(@, st.lon)]
            ELSE a1
      w  == Wrap(st.lon, st.lat)
  IN  IF w[2] < -90
      THEN [st |-> [i |-> st.i, lon |-> w[1], lat |-> w[2], phase |-> "break"],
            active |-> a2]
      ELSE [st |-> [i |-> st.i + 4, lon |-> w[1] + 1, lat |-> w[2], phase |-> "read"],
            active |-> a2]

\* readImageData's loop run from s for at most n iterations (evaluated by halving
\* n, which keeps the evaluation shallow)
RECURSIVE ReadLoop(_, _, _)
ReadLoop(s, img, n) ==
  IF n = 0 \/ ~ReadMore(s.st, img) THEN s
  ELSE IF n = 1 THEN ReadStep(s.st, s.active, img)
  ELSE ReadLoop(ReadLoop(s, img, n \div 2), img, n - (n \div 2))

\* readImageData(imageData): activeLatLon after the loop, which runs at most once
\* per pixel of the array
readImageData(active, img) ==
  ReadLoop([st |-> ReadStart, active |-> active], img, (img.length + 3) \div 4).active

\* Math.max(1, Math.floor(Math.cos(Math.abs(lat) * PI / 180) * dotSphereRadius
\* * PI * 2 * dotDensity)) for |lat| = 0..90
DotsForLatTable == <<
  314, 314, 313, 313, 313, 312, 312, 311, 311, 310, 309, 308, 307, 306, 304, 303,
  301, 300, 298, 297, 295, 293, 291, 289, 286, 284, 282, 279, 277, 274, 272, 269,
  266, 263, 260, 257, 254, 250, 247, 244, 240, 237, 233, 229, 225, 222, 218, 214,
  210, 206, 201, 197, 193, 189, 184, 180, 175, 171, 166, 161, 157, 152, 147, 142,
  137, 132, 127, 122, 117, 112, 107, 102, 97, 91, 86, 81, 76, 70, 65, 59, 54, 49,
  43, 38, 32, 27, 21, 16, 10, 5, 1 >>

dotsForLat(lat) == DotsForLatTable[Abs(lat) + 1]

\* lon = -180 + (x * 360 / dotsForLat), as the fraction <<numerator, denominator>>
CandidateLon(x, n) == <<360 * x - 180 * n, n>>

\* Math.abs(c - lon), scaled by the denominator of lon
LonDist(c, lon) == Abs(c * lon[2] - lon[1])

\* row.reduce((p, c) => (Math.abs(c - lon) < Math.abs(p - lon) ? c : p))
RECURSIVE Reduce(_, _, _, _)
Reduce(row, k, p, lon) ==
  IF k > Len(row)
  THEN p
  ELSE Reduce(row, k + 1, IF LonDist(row[k], lon) < LonDist(p, lon) THEN row[k] ELSE p, lon)

\* mutant: a candidate exactly 0.5 away counts
NearInclusive(closest, lon) == 2 * LonDist(closest, lon) <= lon[2]

\* Math.abs(lon - closest) < 0.5
Near(closest, lon) == 2 * LonDist(closest, lon) < lon[2]

\* visibleAt(lon, lat) on activeLatLon = active
visibleAt(lon, lat, active) ==
  IF lat \notin DOMAIN active THEN FALSE
  ELSE IF Len(active[lat]) = 0 THEN FALSE
  ELSE Near(Reduce(active[lat], 2, active[lat][1], lon), lon)

\* values of Math.sin(Math.random()), scaled by 1000
SinRandomValues == {0, 479}

\* mutant: the new material keeps sharedMaterial's u_time object
SharedUTime(heap) == 1

\* the u_time uniform object of a new dot material
NewUTime(heap) == Len(heap) + 1

\* mutant: the material is not pushed on materials
createDotMaterialNoPush(timeSeed, r, mats, heap) ==
  [materials |-> mats, utime |-> Append(heap, timeSeed * r)]

\* createDotMaterial(timeSeed), with r the value of Math.sin(Math.random()):
\* materials and the u_time heap after it
createDotMaterial(timeSeed, r, mats, heap) ==
  LET id == NewUTime(heap)
      h  == IF id > Len(heap) THEN Append(heap, timeSeed * r) ELSE heap
  IN  [materials |-> Append(mats, [u_time |-> id, u_colorA |-> 1, u_colorB |-> 2,
                                   seed |-> h[id]]),
       utime     |-> h]

\* the loop header of placeDots: lat = 90, i = 0, and x = 0 of the inner loop
PlaceStart == [lat |-> 90, i |-> 0, x |-> 0]

\* the test of placeDots' outer loop
PlaceMore(st) == st.lat > -90

\* one iteration of placeDots' inner loop (dotsForLat >= 1: the inner loop runs
\* at least once per latitude), with r the value of Math.sin(Math.random()) a
\* created dot draws: the loop variables, the dots, materials and u_time heap
PlaceStep(st, active, r, ds, mats, heap) ==
  LET n    == dotsForLat(st.lat)
      lon  == CandidateLon(st.x, n)
      nxt  == IF st.x + 1 < n
              THEN [st EXCEPT !.x = st.x + 1]
              ELSE [lat |-> st.lat - 1, i |-> st.i + 1, x |-> 0]
  IN  IF visibleAt(lon, st.lat, active)
      THEN LET c == createDotMaterial(st.i, r, mats, heap)
           IN  [st |-> nxt, dots |-> Append(ds, [lon |-> lon, lat |-> st.lat]),
                materials |-> c.materials, utime |-> c.utime]
      ELSE [st |-> nxt, dots |-> ds, materials |-> mats, utime |-> heap]

\* the j-th value Math.sin(Math.random()) returns, from the stream rnd
Draw(rnd, j) == rnd[((j - 1) % Len(rnd)) + 1]

\* placeDots' loops run from s for at most n inner iterations (evaluated by
\* halving n)
RECURSIVE PlaceLoop(_, _, _, _)
PlaceLoop(s, active, rnd, n) ==
  IF n = 0 \/ ~PlaceMore(s.st) THEN s
  ELSE IF n = 1
       THEN PlaceStep(s.st, active, Draw(rnd, Len(s.materials) + 1),
                      s.dots, s.materials, s.utime)
       ELSE PlaceLoop(PlaceLoop(s, active, rnd, n \div 2), active, rnd, n - (n \div 2))

\* placeDots(): 180 latitudes of at most 314 candidates each
placeDots(active, rnd, ds, mats, heap) ==
  PlaceLoop([st |-> PlaceStart, dots |-> ds, materials |-> mats, utime |-> heap],
            active, rnd, 180 * 314)

\* mask images the scene specification loads
MaskImages == {
  [length |-> 4 * 433, dark |-> {0, 432}, edge |-> {1}],
  [length |-> 4 * 505, dark |-> {432, 504}, edge |-> {0, 3}]
}

\* streams of Math.sin(Math.random()) values
RandomStreams == {<<479, 0>>, <<0, 479>>}

\* the u_time heap before any dot exists: sharedMaterial's u_time = 1.0
SharedHeap == <<1000>>

\* img.onload for each mask image and stream, from an empty activeLatLon and no dots
OnLoadTable ==
  [img \in MaskImages |->
    [rnd \in RandomStreams |->
      LET a == readImageData(<<>>, img)
      IN  [active |-> a, built |-> placeDots(a, rnd, <<>>, <<>>, SharedHeap)]]]

\* img.onload: readImageData(data); placeDots();
OnLoad(img, rnd, active, ds, mats, heap) ==
  IF active = <<>> /\ ds = <<>> /\ mats = <<>> /\ heap = SharedHeap
  THEN OnLoadTable[img][rnd]
  ELSE LET a == readImageData(active, img)
       IN  [active |-> a, built |-> placeDots(a, rnd, ds, mats, heap)]

-----------------------------------------------------------------------------
(* The frame loop *)

\* renderer.render(scene, camera): what is drawn
Render(n, cam, group, base, ds, mats, heap) ==
  [frame        |-> n,
   camera       |-> cam.position,
   groupDefined |-> group.defined,
   baseDefined  |-> base,
   markers      |-> group.children,
   dots         |-> Len(ds),
   utimes       |-> [k \in 1..Len(mats) |-> heap[mats[k].u_time]]]

\* animate(), called with the camera, markersGroup, baseMesh and u_time heap of the
\* caller
animate(cam, group, base, heap0) ==
  \E p \in ControlsUpdate(cam.position) :
    LET heap == Twinkle(materials, heap0, 1)
        cam1 == [cam EXCEPT !.position = p]
        grp  == attenuateMarkerScaleAndVisibility(group, base, p)
    IN  /\ utime' = heap
        /\ camera' = cam1
        /\ markersGroup' = grp
        /\ frames' = frames + 1
        /\ lastRender' = Render(frames + 1, cam1, grp, base, dots, materials, heap)
        /\ rafPending' = TRUE

-----------------------------------------------------------------------------
(* The top-level script *)

NoRender ==
  [frame |-> 0, camera |-> <<0, 0, 0>>, groupDefined |-> FALSE, baseDefined |-> FALSE,
   markers |-> <<>>, dots |-> 0, utimes |-> <<>>]

NoScan == [i |-> 0, lon |-> 0, lat |-> 0, phase |-> "idle"]
NoPlace == [lat |-> 0, i |-> 0, x |-> 0]
NoImage == [length |-> 0, dark |-> {}, edge |-> {}]

Init ==
  /\ pc = "start"
  /\ nextMarker = 1
  /\ crashed = FALSE
  /\ viewport \in Viewports
  /\ sizes = [width |-> 0, height |-> 0]
  /\ camera = [defined |-> FALSE, position |-> <<0, 0, 0>>, aspect |-> <<0, 1>>]
  /\ baseMesh = FALSE
  /\ markersGroup = [defined |-> FALSE, children |-> <<>>]
  /\ tex = <<>>
  /\ log = <<>>
  /\ maskState = "unset"
  /\ activeLatLon = <<>>
  /\ dots = <<>>
  /\ materials = <<>>
  /\ utime = <<>>
  /\ colors = <<>>
  /\ dotsFrame = 0
  /\ frames = 0
  /\ rafPending = FALSE
  /\ lastRender = NoRender
  /\ cursor = ""
  /\ events = 0
  /\ scan = NoScan
  /\ place = NoPlace
  /\ image = NoImage

\* mutant: initScene() without the markers group
InitSceneNoGroup ==
  /\ pc = "start"
  /\ sizes' = [width |-> viewport.width, height |-> viewport.height]
  /\ baseMesh' = TRUE
  /\ colors' = <<"#68D1BF", "#1D6F78">>
  /\ maskState' = "pending"
  /\ LET cam == [defined  |-> TRUE,
                 position |-> <<0, 0, CameraZ(viewport)>>,
                 aspect   |-> <<viewport.width, viewport.height>>]
     IN  animate(cam, markersGroup, TRUE, SharedHeap)
  /\ pc' = "markers"
  /\ UNCHANGED <<nextMarker, crashed, viewport, tex, log, activeLatLon, dots,
                 materials, dotsFrame, cursor, events, stepVars>>

\* initScene(): setup, buildDotsFromMap() up to img.src, listeners, first animate()
InitScene ==
  /\ pc = "start"
  /\ sizes' = [width |-> viewport.width, height |-> viewport.height]
  /\ baseMesh' = TRUE
  /\ colors' = <<"#68D1BF", "#1D6F78">>
  /\ maskState' = "pending"
  /\ LET cam == [defined  |-> TRUE,
                 position |-> <<0, 0, CameraZ(viewport)>>,
                 aspect   |-> <<viewport.width, viewport.height>>]
         group == [defined |-> TRUE, children |-> <<>>]
     IN  animate(cam, group, TRUE, SharedHeap)
  /\ pc' = "markers"
  /\ UNCHANGED <<nextMarker, crashed, viewport, tex, log, activeLatLon, dots,
                 materials, dotsFrame, cursor, events, stepVars>>

\* addFlatMarker({lat, lon, ...defaultMarkerOpts}) for the next entry of markers
AddFlatMarker ==
  /\ pc = "markers"
  /\ nextMarker <= NumMarkers
  /\ IF ~markersGroup.defined
     THEN \* markersGroup.add on undefined: TypeError, the script ends
          /\ crashed' = TRUE
          /\ pc' = "running"
          /\ UNCHANGED <<nextMarker, markersGroup, tex>>
     ELSE /\ markersGroup' = [markersGroup EXCEPT !.children =
                                Append(@, NewPlane(MarkerOutward[nextMarker]))]
          /\ tex' = Append(tex, [state |-> "pending", image |-> NoIcon])
          /\ nextMarker' = nextMarker + 1
          /\ pc' = IF nextMarker = NumMarkers THEN "running" ELSE "markers"
          /\ UNCHANGED crashed
  /\ UNCHANGED <<viewport, sizes, camera, baseMesh, log, maskState, activeLatLon, dots,
                 materials, utime, colors, dotsFrame, frames, rafPending, lastRender,
                 cursor, events, stepVars>>

-----------------------------------------------------------------------------
(* Callbacks of the event loop; they run once the top-level script has ended *)

\* the markers whose texture request completes within the explored callbacks:
\* London (on the limb of the initial view), Nairobi (which one camera position
\* faces head-on) and Jakarta (behind the globe in the initial view)
TextureSubjects == {1, 5, 15}

\* the onLoad callback of marker i's texture
TextureLoaded(i, img) ==
  /\ pc = "running"
  /\ tex[i].state = "pending"
  /\ events < MaxEvents
  /\ events' = events + 1
  /\ tex' = [tex EXCEPT ![i] = [state |-> "loaded", image |-> img]]
  /\ markersGroup' = [markersGroup EXCEPT !.children[i] = OnTextureLoad(@, img)]
  /\ UNCHANGED <<pc, nextMarker, crashed, viewport, sizes, camera, baseMesh, log,
                 maskState, activeLatLon, dots, materials, utime, colors, dotsFrame,
                 frames, rafPending, lastRender, cursor, stepVars>>

\* the onError callback of marker i's texture
TextureFailed(i) ==
  /\ pc = "running"
  /\ tex[i].state = "pending"
  /\ events < MaxEvents
  /\ events' = events + 1
  /\ tex' = [tex EXCEPT ![i].state = "failed"]
  /\ log' = Append(log, [message |-> "Marker texture failed to load:", marker |-> i])
  /\ markersGroup' = [markersGroup EXCEPT !.children[i] = OnTextureError(@)]
  /\ UNCHANGED <<pc, nextMarker, crashed, viewport, sizes, camera, baseMesh,
                 maskState, activeLatLon, dots, materials, utime, colors, dotsFrame,
                 frames, rafPending, lastRender, cursor, stepVars>>

\* the requestAnimationFrame callback: animate()
Frame ==
  /\ pc = "running"
  /\ rafPending
  /\ frames <= MaxFrames
  /\ animate(camera, markersGroup, baseMesh, utime)
  /\ UNCHANGED <<pc, nextMarker, crashed, viewport, sizes, baseMesh, tex, log,
                 maskState, activeLatLon, dots, materials, colors, dotsFrame, cursor,
                 events, stepVars>>

\* onResize, after the window changed to viewport vp
OnResize(vp) ==
  /\ pc = "running"
  /\ events < MaxEvents
  /\ events' = events + 1
  /\ viewport' = vp
  /\ sizes' = [width |-> vp.width, height |-> vp.height]
  /\ camera' = [camera EXCEPT !.position[3] = CameraZ(vp),
                              !.aspect = <<vp.width, vp.height>>]
  /\ UNCHANGED <<pc, nextMarker, crashed, baseMesh, markersGroup, tex, log, maskState,
                 activeLatLon, dots, materials, utime, colors, dotsFrame, frames,
                 rafPending, lastRender, cursor, stepVars>>

\* onMouseMove; hit is whether the ray through the pointer meets baseMesh
OnMouseMove(hit) ==
  /\ pc = "running"
  /\ events < MaxEvents
  /\ events' = events + 1
  /\ cursor' = IF hit THEN "pointer" ELSE "default"
  /\ UNCHANGED <<pc, nextMarker, crashed, viewport, sizes, camera, baseMesh,
                 markersGroup, tex, log, maskState, activeLatLon, dots, materials,
                 utime, colors, dotsFrame, frames, rafPending, lastRender, stepVars>>

\* img.onload of the mask image, with the decoded image and the random stream
ImgOnLoad(img, rnd) ==
  /\ pc = "running"
  /\ maskState = "pending"
  /\ events < MaxEvents
  /\ events' = events + 1
  /\ maskState' = "loaded"
  /\ LET res == OnLoad(img, rnd, activeLatLon, dots, materials, utime)
     IN  /\ activeLatLon' = res.active
         /\ dots' = res.built.dots
         /\ materials' = res.built.materials
         /\ utime' = res.built.utime
  /\ dotsFrame' = frames
  /\ UNCHANGED <<pc, nextMarker, crashed, viewport, sizes, camera, baseMesh,
                 markersGroup, tex, log, colors, frames, rafPending, lastRender,
                 cursor, stepVars>>

\* the mask image fails to load: img has no onerror handler
ImgOnError ==
  /\ pc = "running"
  /\ maskState = "pending"
  /\ events < MaxEvents
  /\ events' = events + 1
  /\ maskState' = "failed"
  /\ UNCHANGED <<pc, nextMarker, crashed, viewport, sizes, camera, baseMesh,
                 markersGroup, tex, log, activeLatLon, dots, materials, utime, colors,
                 dotsFrame, frames, rafPending, lastRender, cursor, stepVars>>

Next ==
  \/ InitScene
  \/ AddFlatMarker
  \/ \E i \in TextureSubjects \cap (1..Len(tex)), img \in IconImages :
       TextureLoaded(i, img)
  \/ \E i \in TextureSubjects \cap (1..Len(tex)) : TextureFailed(i)
  \/ Frame
  \/ \E vp \in Viewports : OnResize(vp)
  \/ \E hit \in BOOLEAN : OnMouseMove(hit)
  \/ \E img \in MaskImages, rnd \in RandomStreams : ImgOnLoad(img, rnd)
  \/ ImgOnError

Spec == Init /\ [][Next]_vars

-----------------------------------------------------------------------------
(* The img.onload callback of the mask image, one loop iteration per step *)

\* mask images the stepwise specification decodes: one longer than the scan,
\* one cut inside a pixel, one short
ScanImages == {
  [length |-> 4 * 65200, dark |-> {0, 360, 361, 1457, 18002, 18006, 65160, 65161, 65170},
   edge |-> {1, 362}],
  [length |-> 4 * 1457 + 2, dark |-> {432, 1457}, edge |-> {}],
  [length |-> 4 * 1200, dark |-> {0, 5, 1103}, edge |-> {361}]
}

\* the state in which img.onload starts: the script has ended, the first frame is
\* drawn, every texture is pending
InitBuild ==
  /\ pc = "onload"
  /\ nextMarker = NumMarkers + 1
  /\ crashed = FALSE
  /\ viewport = [innerWidth |-> 1024, width |-> 800, height |-> 600]
  /\ sizes = [width |-> 800, height |-> 600]
  /\ camera = [defined |-> TRUE, position |-> <<0, 0, 100>>, aspect |-> <<800, 600>>]
  /\ baseMesh = TRUE
  /\ markersGroup = [defined |-> TRUE,
                     children |-> [i \in 1..NumMarkers |-> NewPlane(MarkerOutward[i])]]
  /\ tex = [i \in 1..NumMarkers |-> [state |-> "pending", image |-> NoIcon]]
  /\ log = <<>>
  /\ maskState = "pending"
  /\ activeLatLon = <<>>
  /\ dots = <<>>
  /\ materials = <<>>
  /\ utime = SharedHeap
  /\ colors = <<"#68D1BF", "#1D6F78">>
  /\ dotsFrame = 0
  /\ frames = 1
  /\ rafPending = TRUE
  /\ lastRender = Render(1, camera, [defined |-> TRUE, children |-> <<>>], TRUE,
                         <<>>, <<>>, SharedHeap)
  /\ cursor = ""
  /\ events = 0
  /\ scan = ReadStart
  /\ place = NoPlace
  /\ image \in ScanImages

buildFixed == <<nextMarker, crashed, viewport, sizes, camera, baseMesh, markersGroup,
                tex, log, colors, frames, rafPending, lastRender, cursor, events,
                image>>

\* one iteration of readImageData's loop
ScanStep ==
  /\ pc = "onload"
  /\ ReadMore(scan, image)
  /\ LET n == ReadStep(scan, activeLatLon, image)
     IN  /\ scan' = n.st
         /\ activeLatLon' = n.active
  /\ UNCHANGED <<pc, maskState, dots, materials, utime, dotsFrame, place, buildFixed>>

\* readImageData returns, placeDots starts
StartPlace ==
  /\ pc = "onload"
  /\ scan.phase \in {"read", "break"}
  /\ ~ReadMore(scan, image)
  /\ scan' = [scan EXCEPT !.phase = "place"]
  /\ place' = PlaceStart
  /\ UNCHANGED <<pc, maskState, activeLatLon, dots, materials, utime, dotsFrame,
                 buildFixed>>

\* one iteration of placeDots' inner loop
PlaceDotStep ==
  /\ pc = "onload"
  /\ scan.phase = "place"
  /\ PlaceMore(place)
  /\ \E r \in SinRandomValues :
       LET n == PlaceStep(place, activeLatLon, r, dots, materials, utime)
       IN  /\ place' = n.st
           /\ dots' = n.dots
           /\ materials' = n.materials
           /\ utime' = n.utime
  /\ UNCHANGED <<pc, maskState, activeLatLon, dotsFrame, scan, buildFixed>>

\* placeDots and img.onload return
EndOnLoad ==
  /\ pc = "onload"
  /\ scan.phase = "place"
  /\ ~PlaceMore(place)
  /\ scan' = [scan EXCEPT !.phase = "end"]
  /\ pc' = "running"
  /\ maskState' = "loaded"
  /\ dotsFrame' = frames
  /\ UNCHANGED <<activeLatLon, dots, materials, utime, place, buildFixed>>

NextBuild == ScanStep \/ StartPlace \/ PlaceDotStep \/ EndOnLoad

SpecBuild == InitBuild /\ [][NextBuild]_vars

-----------------------------------------------------------------------------
(* Properties *)

\* the unit direction from the globe centre to the camera of the last render
RenderView == Normalize(lastRender.camera)

\* the dot product of a drawn marker's outward normal with the view direction
RenderDot(m) == Dot3(m.outward, RenderView)

\* C1: at every render of animate(), a marker is visible if and only if the dot
\* product of its outward normal with the unit direction from the globe centre to
\* the camera is strictly positive; on the limb (dot = 0) or behind, it is hidden.
C1_VisibleIffFacing ==
  \A k \in 1..Len(lastRender.markers) :
    lastRender.markers[k].visible <=> RenderDot(lastRender.markers[k]) > 0

\* C1 witness: a render after London's texture loaded, with London exactly on the
\* limb and hidden, some marker behind the globe and some marker visible.
C1_Witness ==
  /\ lastRender.frame >= 2
  /\ Len(lastRender.markers) = NumMarkers
  /\ lastRender.markers[1].map
  /\ RenderDot(lastRender.markers[1]) = 0
  /\ ~lastRender.markers[1].visible
  /\ \E k \in 1..NumMarkers : RenderDot(lastRender.markers[k]) < 0
  /\ \E k \in 1..NumMarkers : lastRender.markers[k].visible

\* the texture failure callback of marker i runs in this step
FailureStep(i) == tex[i].state = "pending" /\ tex'[i].state = "failed"

\* C2: a failed texture load is logged and leaves the fallback plane in place: the
\* plane stays in markersGroup with the fallback colour, no texture map and aspect
\* 1; the failure callback changes no marker, dot or camera state; and no other
\* operation has an error path (nothing else logs, nothing throws).
C2_FailureOnlyLogs ==
  /\ [](/\ ~crashed
        /\ \A i \in 1..Len(tex) :
             tex[i].state = "failed" =>
               /\ i <= Len(markersGroup.children)
               /\ ~markersGroup.children[i].map
               /\ markersGroup.children[i].color = "0xffffff"
               /\ markersGroup.children[i].aspect = <<1, 1>>)
  /\ [][/\ \A i \in 1..Len(tex) :
             FailureStep(i) =>
               /\ Len(log') = Len(log) + 1
               /\ log'[Len(log')].marker = i
               /\ UNCHANGED <<markersGroup, camera, sizes, dots, materials, utime,
                              colors, activeLatLon, maskState, lastRender, cursor,
                              frames>>
        /\ log' # log => \E i \in 1..Len(tex) : FailureStep(i)
       ]_vars

\* C2 witness: a marker whose texture failed, logged once, drawn visible by a
\* later frame as the untextured fallback plane.
C2_Witness ==
  \E i \in 1..Len(tex) :
    /\ tex[i].state = "failed"
    /\ Len(log) = 1
    /\ log[1].marker = i
    /\ lastRender.frame >= 2
    /\ lastRender.markers[i].visible
    /\ ~lastRender.markers[i].map

\* s = 0.55 + 0.45 * clamp(dot, 0, 1), scaled by S_ONE
AttenuationOf(dot) == 55 * DOT_ONE + 45 * Clamp(dot, 0, DOT_ONE)

\* C3: at every render, every visible marker has scale
\* (baseSize * aspect * s, baseSize * s, 1) with s = 0.55 + 0.45 * clamp(dot, 0, 1);
\* 0.55 < s <= 1, s is non-decreasing in dot, and s = 1 only head-on; also when the
\* texture callback reset the scale since the previous frame.
C3_VisibleScale ==
  LET view == RenderView
      dot  == [k \in 1..Len(lastRender.markers) |->
                 Dot3(lastRender.markers[k].outward, view)]
  IN  \A k \in 1..Len(lastRender.markers) :
        LET m  == lastRender.markers[k]
            sc == AttenuationOf(dot[k])
        IN  m.visible =>
              /\ m.scale.y = m.baseSize * sc
              /\ m.scale.x[1] * m.aspect[2]
                   = m.baseSize * m.aspect[1] * sc * m.scale.x[2]
              /\ m.scale.x[2] # 0
              /\ m.scale.z = 1
              /\ 55 * DOT_ONE < sc /\ sc <= S_ONE
              /\ (sc = S_ONE => dot[k] >= DOT_ONE)
              /\ \A j \in 1..Len(lastRender.markers) :
                   (lastRender.markers[j].visible /\ dot[j] <= dot[k])
                     => lastRender.markers[j].scale.y <= m.scale.y

\* C3 witness: a render in which a marker whose texture loaded with aspect 1/2 is
\* visible and attenuated (s < 1) while another marker faces the camera head-on
\* (s = 1).
C3_Witness ==
  /\ lastRender.frame >= 2
  /\ \E k \in 1..Len(lastRender.markers) :
       LET m == lastRender.markers[k]
       IN  m.visible /\ m.map /\ m.aspect = <<1, 2>> /\ m.scale.y < m.baseSize * S_ONE
  /\ \E k \in 1..Len(lastRender.markers) :
       LET m == lastRender.markers[k]
       IN  m.visible /\ m.scale.y = m.baseSize * S_ONE

\* the value of the u_time uniform of the k-th material
UTimeOf(k) == utime[materials[k].u_time]

\* C4: each animate() adds twinkleTime = 0.027 once to the u_time of every
\* material and changes no colour uniform; each dot owns its u_time object, so the
\* difference of two dots' u_time never changes, and after k frames a dot's u_time
\* is its seed plus k * twinkleTime.
C4_Twinkle ==
  /\ [](/\ \A j, k \in 1..Len(materials) :
             j # k => materials[j].u_time # materials[k].u_time
        /\ \A k \in 1..Len(materials) :
             /\ materials[k].u_time # 1
             /\ UTimeOf(k) = materials[k].seed + (frames - dotsFrame) * 27)
  /\ [][/\ frames' = frames + 1 =>
             /\ \A k \in 1..Len(materials) :
                  utime'[materials[k].u_time] = UTimeOf(k) + 27
             /\ colors' = colors \/ pc = "start"
        /\ \A j, k \in 1..Len(materials) :
             utime'[materials'[j].u_time] - utime'[materials'[k].u_time]
               = UTimeOf(j) - UTimeOf(k)
       ]_vars

\* C4 witness: two dots with different seeds, two frames after they were built.
C4_Witness ==
  /\ Len(materials) >= 2
  /\ frames - dotsFrame = 2
  /\ materials[1].seed # materials[2].seed
  /\ UTimeOf(2) = materials[2].seed + 54

\* width / height of a loaded texture, 1 when it has no usable width or height
RatioOf(img) ==
  IF img.present /\ img.width > 0 /\ img.height > 0
  THEN <<img.width, img.height>>
  ELSE <<1, 1>>

\* C5: in every reachable state each marker has scale.x = scale.y * aspect and
\* scale.z = 1, where aspect is 1 until its texture loaded and the texture's
\* width / height from then on (1 without usable width or height); a texture
\* callback of one marker changes no other marker.
C5_AspectScale ==
  /\ [](/\ Len(tex) = Len(markersGroup.children)
        /\ \A i \in 1..Len(markersGroup.children) :
             LET m == markersGroup.children[i]
             IN  /\ m.scale.x[2] # 0
                 /\ m.scale.x[1] * m.aspect[2] = m.scale.y * m.aspect[1] * m.scale.x[2]
                 /\ m.scale.z = 1
                 /\ m.aspect = IF tex[i].state = "loaded"
                               THEN RatioOf(tex[i].image)
                               ELSE <<1, 1>>)
  /\ [][\A i \in 1..Len(tex) :
          tex'[i] # tex[i] =>
            \A j \in 1..Len(tex) :
              j # i => markersGroup'.children[j] = markersGroup.children[j]
       ]_vars

\* C5 witness: two texture callbacks ran, one loading an image of aspect 1/2 whose
\* marker a later frame attenuated, the other a failure.
C5_Witness ==
  \E i, j \in 1..Len(tex) :
    /\ tex[i].state = "loaded"
    /\ tex[j].state = "failed"
    /\ markersGroup.children[i].aspect = <<1, 2>>
    /\ markersGroup.children[i].visible
    /\ markersGroup.children[i].scale.y < size * S_ONE

\* C6: the dots are built in one pass by the load of the mask image: before it,
\* materials is empty and there is no dot while frames run; the load adds the dots
\* and one material per dot; afterwards nothing adds, removes or moves a dot or
\* changes the length of materials; a mask image that never loads gives no dot
\* and logs nothing.
C6_OnePass ==
  /\ [](/\ Len(materials) = Len(dots)
        /\ maskState # "loaded" =>
             dots = <<>> /\ materials = <<>> /\ activeLatLon = <<>>)
  /\ [][/\ (dots' # dots \/ materials' # materials \/ activeLatLon' # activeLatLon)
             => (maskState = "pending" /\ maskState' = "loaded")
        /\ maskState \in {"loaded", "failed"} => maskState' = maskState
        /\ maskState' # maskState => log' = log
       ]_vars

\* C6 witness: the mask loaded after a frame ran without dots, two dots were
\* built, and a frame and another callback ran afterwards.
C6_Witness ==
  /\ maskState = "loaded"
  /\ Len(dots) = 2
  /\ Len(materials) = 2
  /\ dotsFrame >= 2
  /\ frames > dotsFrame
  /\ events = 2
  /\ lastRender.dots = 2

\* C7: markersGroup exists before any marker is added; the first animate() runs
\* with markersGroup and baseMesh defined, no marker and no dot; all 15 markers
\* are in markersGroup before the first requestAnimationFrame callback, and no
\* texture callback runs for a marker that is not in markersGroup.
C7_ScriptOrder ==
  /\ ~crashed
  /\ pc = "markers" => (markersGroup.defined /\ frames = 1 /\ events = 0)
  /\ lastRender.frame = 1 =>
       /\ lastRender.groupDefined
       /\ lastRender.baseDefined
       /\ lastRender.markers = <<>>
       /\ lastRender.dots = 0
  /\ lastRender.frame >= 2 => Len(lastRender.markers) = 15
  /\ pc = "running" => Len(markersGroup.children) = 15
  /\ Len(tex) = Len(markersGroup.children)
  /\ \A i \in 1..Len(tex) :
       tex[i].state # "pending" => Len(markersGroup.children) = 15

\* C7 witness: the second render, drawing all 15 markers, after a texture
\* callback.
C7_Witness ==
  /\ lastRender.frame = 2
  /\ Len(lastRender.markers) = 15
  /\ \E i \in 1..Len(lastRender.markers) : lastRender.markers[i].map

\* the index of the pixel the scan reads next
ScanPixel == scan.i \div 4

\* r, g and b of the pixel the scan reads next are all below 80
ScanPixelDark ==
  \A c \in 0..2 : DataAt(image, scan.i + c) >= 0 /\ DataAt(image, scan.i + c) < 80

\* the row of activeLatLon for lat, empty when there is none
RowOf(active, lat) == IF lat \in DOMAIN active THEN active[lat] ELSE <<>>

\* C8: readImageData reads one pixel per step, row-major: pixels 0..360 are
\* latitude 90 with longitudes -180..180, every later latitude takes 360 pixels
\* with longitudes -179..180; so -180 is recorded only for latitude 90, recorded
\* longitudes are in [-180, 180], keys in [-90, 90], a longitude is recorded if
\* and only if r, g, b are all below 80, and the scan stops after the latitude -90
\* row (361 + 180 * 360 pixels) whatever the data length.
C8_ScanLayout ==
  /\ [](/\ scan.phase = "read" =>
             /\ scan.i % 4 = 0
             /\ ScanPixel <= 361 + 180 * 360 - 1
             /\ IF ScanPixel <= 360
                THEN scan.lat = 90 /\ scan.lon = ScanPixel - 180
                ELSE /\ scan.lat = 89 - ((ScanPixel - 361) \div 360)
                     /\ scan.lon = ((ScanPixel - 361) % 360) - 179
        /\ scan.phase = "break" =>
             ScanPixel = 361 + 180 * 360 - 1 /\ scan.lat = -91
        /\ \A lat \in DOMAIN activeLatLon :
             /\ lat \in -90..90
             /\ \A j \in 1..Len(activeLatLon[lat]) :
                  /\ activeLatLon[lat][j] \in -180..180
                  /\ activeLatLon[lat][j] = -180 => lat = 90)
  /\ [][(scan.phase = "read" /\ scan' # scan /\ scan'.phase # "place") =>
          /\ scan.lat \in DOMAIN activeLatLon'
          /\ activeLatLon'[scan.lat] =
               IF ScanPixelDark
               THEN Append(RowOf(activeLatLon, scan.lat), scan.lon)
               ELSE RowOf(activeLatLon, scan.lat)
          /\ \A lat \in DOMAIN activeLatLon : lat # scan.lat =>
               (lat \in DOMAIN activeLatLon' /\ activeLatLon'[lat] = activeLatLon[lat])
          /\ (scan'.phase = "read" => scan'.i = scan.i + 4)
       ]_vars

\* C8 witness: the scan of an array longer than 361 + 180 * 360 pixels stopped at
\* the end of the latitude -90 row, with -180 and 180 recorded for latitude 90,
\* -179 for latitude 89 and 180 for latitude -90.
C8_Witness ==
  /\ scan.phase = "break"
  /\ image.length > 4 * (361 + 180 * 360)
  /\ activeLatLon[90] = <<-180, 180>>
  /\ activeLatLon[89][1] = -179
  /\ activeLatLon[-90] = <<180>>
  /\ activeLatLon[-89] = <<>>

\* the candidate placeDots examines next
PlaceN == dotsForLat(place.lat)
PlaceLon == CandidateLon(place.x, PlaceN)

\* some recorded longitude of the candidate's latitude is less than 0.5 away
PlaceVisible ==
  /\ place.lat \in DOMAIN activeLatLon
  /\ \E j \in 1..Len(activeLatLon[place.lat]) :
       2 * Abs(activeLatLon[place.lat][j] * PlaceN - (360 * place.x - 180 * PlaceN))
         < PlaceN

Placing == scan.phase = "place" /\ PlaceMore(place)

\* C9: visibleAt(lon, lat) is true if and only if activeLatLon[lat] exists, is not
\* empty and holds a longitude less than 0.5 away from lon (false without a row,
\* for an empty row, and at exactly 0.5); placeDots examines lat from 90 down to
\* -89, lon = -180 + x * 360 / dotsForLat with dotsForLat >= 1, and creates a dot
\* exactly when visibleAt is true.
C9_VisibleAt ==
  /\ [](/\ Placing =>
             /\ place.lat \in -89..90
             /\ PlaceN >= 1
             /\ place.x \in 0..(PlaceN - 1)
             /\ place.i = 90 - place.lat
             /\ visibleAt(PlaceLon, place.lat, activeLatLon) <=> PlaceVisible
        /\ \A k \in 1..Len(dots) : dots[k].lat \in -89..90)
  /\ [][(Placing /\ place' # place) =>
          dots' = IF PlaceVisible
                  THEN Append(dots, [lon |-> PlaceLon, lat |-> place.lat])
                  ELSE dots
       ]_vars

\* C9 witness: after a dot was placed, a candidate exactly 0.5 away from the only
\* near recorded longitude, which is not visible.
C9_Witness ==
  /\ Placing
  /\ Len(dots) >= 1
  /\ place.lat \in DOMAIN activeLatLon
  /\ \E j \in 1..Len(activeLatLon[place.lat]) :
       2 * LonDist(activeLatLon[place.lat][j], PlaceLon) = PlaceN
  /\ ~PlaceVisible
  /\ ~visibleAt(PlaceLon, place.lat, activeLatLon)

====
